---- MODULE Spec2Model ----
(***************************************************************************)
(* Model of the device diagnostic tool: the parsing/decoding core of       *)
(* diag_tool_logic.py and the scan/configure handlers of diag_tool_app.py. *)
(*                                                                         *)
(* Text is modelled structurally.  A digit string is a sequence of digits  *)
(* (<<0,0,4,2>> is "00042"), a tool output is the sequence of its lines    *)
(* (<<>> is the empty output), and a line is a record of the pieces the    *)
(* regular expressions of the source look for.                             *)
(***************************************************************************)
EXTENDS Integers, Sequences, FiniteSets, TLC

VARIABLES fn, inp, out, pc, session_state, invoked, output_log, proc

vars == <<fn, inp, out, pc, session_state, invoked, output_log, proc>>

(***************************************************************************)
(* Bounds of the model.                                                    *)
(***************************************************************************)
MaxIdLen == 2
MaxLines == 3
MaxNum == 2

\* digits an identifier is built from in the model
IdDigits == {0, 7}

(***************************************************************************)
(* Generic helpers.                                                        *)
(***************************************************************************)
SeqsUpTo(S, n) == UNION {[1..k -> S] : k \in 0..n}

NonEmptySeqsUpTo(S, n) == UNION {[1..k -> S] : k \in 1..n}

IdStrings == NonEmptySeqsUpTo(IdDigits, MaxIdLen)

\* the ids used in outputs of several lines
FewIds == {<<7>>, <<0, 7>>, <<0>>, <<4>>}

\* str.lstrip('0') on a digit string
RECURSIVE lstrip0(_)
lstrip0(s) ==
    IF s = <<>> THEN <<>>
    ELSE IF Head(s) = 0 THEN lstrip0(Tail(s))
    ELSE s

\* Python's None: a value distinct from every digit string
None == <<-1>>

\* Python truthiness of current_device_id: None and "" are falsy
Truthy(x) == x # None /\ x # <<>>

(***************************************************************************)
(* run_command: the external configuration tool.  A process behaviour is   *)
(* what the child does: whether the executable exists, whether it answers  *)
(* within the timeout, its exit status, its stdout lines and its stderr.   *)
(***************************************************************************)
\* A text is the sequence of its "\n"-separated pieces; the empty text is <<>>.
\* A piece is a fixed message, possibly followed by the line it quotes.
NoText == <<>>

Msg(m) == <<[msg |-> m, line |-> <<>>]>>

StderrTexts == {NoText, Msg("tool stderr")}

ProcBehaviours(Outputs) ==
    {[exists |-> FALSE, timed_out |-> FALSE, returncode |-> 0, stdout |-> <<>>, stderr |-> NoText],
     [exists |-> TRUE, timed_out |-> TRUE, returncode |-> 0, stdout |-> <<>>, stderr |-> NoText]}
    \cup
    {[exists |-> TRUE, timed_out |-> FALSE, returncode |-> 0, stdout |-> o, stderr |-> NoText] :
        o \in Outputs}
    \cup
    {[exists |-> TRUE, timed_out |-> FALSE, returncode |-> 1, stdout |-> <<>>, stderr |-> e] :
        e \in StderrTexts}
    \cup
    {[exists |-> TRUE, timed_out |-> FALSE, returncode |-> 1, stdout |-> o, stderr |-> Msg("tool stderr")] :
        o \in Outputs}

\* a plausible slip: every nonzero exit status is a failure, output or not
run_command_nonzero_fails(p) ==
    IF ~p.exists
    THEN [success |-> FALSE, stdout |-> <<>>, stderr |-> Msg("Error: ConfigDevices.exe not found")]
    ELSE IF p.timed_out
    THEN [success |-> FALSE, stdout |-> <<>>,
          stderr |-> Msg("Error: The command timed out. The device may be unresponsive.")]
    ELSE IF p.returncode # 0
    THEN [success |-> FALSE, stdout |-> <<>>,
          stderr |-> IF p.stderr # NoText THEN p.stderr ELSE Msg("Command failed with no output.")]
    ELSE [success |-> TRUE, stdout |-> p.stdout, stderr |-> p.stderr]

run_command(p) ==
    IF ~p.exists
    THEN [success |-> FALSE, stdout |-> <<>>, stderr |-> Msg("Error: ConfigDevices.exe not found")]
    ELSE IF p.timed_out
    THEN [success |-> FALSE, stdout |-> <<>>,
          stderr |-> Msg("Error: The command timed out. The device may be unresponsive.")]
    ELSE IF p.returncode # 0 /\ p.stdout = <<>>
    THEN [success |-> FALSE, stdout |-> <<>>,
          stderr |-> IF p.stderr # NoText THEN p.stderr ELSE Msg("Command failed with no output.")]
    ELSE [success |-> TRUE, stdout |-> p.stdout, stderr |-> p.stderr]

(***************************************************************************)
(* list_sessions.  A line of the -si output is described by what the two   *)
(* patterns find in it: start_id is the digit string SI_START_PATTERN      *)
(* captures (<<>> when the pattern does not match), session_num the number *)
(* SI_SESSION_PATTERN captures (0 when it does not match).  The other      *)
(* captured fields of a session line travel with num unchanged.            *)
(***************************************************************************)
SiLines ==
    {[start_id |-> i, session_num |-> 0] : i \in FewIds}
    \cup
    {[start_id |-> <<>>, session_num |-> n] : n \in 0..MaxNum}
    \cup
    {[start_id |-> <<7>>, session_num |-> 1]}

SiOutputs ==
    SeqsUpTo(SiLines, MaxLines)
    \cup
    {<<[start_id |-> i, session_num |-> 0], [start_id |-> <<>>, session_num |-> 1]>> :
        i \in IdStrings}

SI_START_PATTERN(line) == line.start_id # <<>>

SI_SESSION_PATTERN(line) == line.session_num # 0

SessionData(line) == [num |-> line.session_num, Select |-> FALSE]

\* sessions_by_device is an insertion-ordered dict: a sequence of groups
HasKey(d, k) == \E i \in 1..Len(d) : d[i].id = k

KeysOf(d) == {d[i].id : i \in 1..Len(d)}

GroupOf(d, k) == LET i == CHOOSE j \in 1..Len(d) : d[j].id = k IN d[i].recs

AppendTo(d, k, rec) ==
    [i \in 1..Len(d) |-> IF d[i].id = k THEN [d[i] EXCEPT !.recs = Append(@, rec)] ELSE d[i]]

RECURSIVE list_sessions_loop(_, _, _)
list_sessions_loop(lines, sessions_by_device, current_device_id) ==
    IF lines = <<>> THEN sessions_by_device
    ELSE LET line == Head(lines) IN
         IF SI_START_PATTERN(line)
         THEN LET id == lstrip0(line.start_id) IN
              list_sessions_loop(Tail(lines),
                                 IF HasKey(sessions_by_device, id)
                                 THEN sessions_by_device
                                 ELSE Append(sessions_by_device, [id |-> id, recs |-> <<>>]),
                                 id)
         ELSE IF SI_SESSION_PATTERN(line) /\ Truthy(current_device_id)
         THEN list_sessions_loop(Tail(lines),
                                 AppendTo(sessions_by_device, current_device_id, SessionData(line)),
                                 current_device_id)
         ELSE list_sessions_loop(Tail(lines), sessions_by_device, current_device_id)

\* a plausible slip: orphan session lines collected under a default group
list_sessions_default_group(p) ==
    LET r == run_command(p) IN
    IF ~r.success
    THEN [data |-> <<>>, err |-> IF r.stderr # NoText THEN r.stderr ELSE Msg("Failed to run -si command.")]
    ELSE [data |-> list_sessions_loop(r.stdout, <<[id |-> <<>>, recs |-> <<>>]>>, <<>>),
          err |-> NoText]

list_sessions(p) ==
    LET r == run_command(p) IN
    IF ~r.success
    THEN [data |-> <<>>, err |-> IF r.stderr # NoText THEN r.stderr ELSE Msg("Failed to run -si command.")]
    ELSE [data |-> list_sessions_loop(r.stdout, <<>>, None), err |-> NoText]

(***************************************************************************)
(* get_bit_status and get_current_hr_mode.  A flags string "0x..." is the  *)
(* sequence of its hexadecimal digits, most significant first, each digit  *)
(* a number 0..15; a character that is no hexadecimal digit is 16.         *)
(* int(s, 16) followed by (flags_int >> i) & 1 reads bit i mod 4 of the    *)
(* digit that stands i div 4 places from the right (0 beyond the string).  *)
(***************************************************************************)
BitCount == 64

HexDigits == 0..15

IsHexString(s) == s # <<>> /\ \A k \in 1..Len(s) : s[k] \in HexDigits

\* an argument that is no str: None, or an int object, written as a marker
\* followed by the hexadecimal digits of its value
PyInt(digits) == <<-2>> \o digits

IsStr(x) == x = <<>> \/ Head(x) >= 0

\* the call ends with an exception that nothing catches
Raised(e) == [raised |-> e]

Pow2(n) == CASE n = 0 -> 1 [] n = 1 -> 2 [] n = 2 -> 4 [] n = 3 -> 8

\* (int(flags_hex, 16) >> i) & 1
BitOf(flags_hex, i) ==
    LET k == Len(flags_hex) - (i \div 4) IN
    IF k < 1 THEN 0 ELSE (flags_hex[k] \div Pow2(i % 4)) % 2

specific_bits_map == {3, 24, 28, 30}

str(i) == CASE i = 3 -> "3" [] i = 24 -> "24" [] i = 28 -> "28" [] i = 30 -> "30"

Description(i) ==
    CASE i = 3 -> <<"Enables HR">>
      [] i = 24 -> <<"Double button to turn off">>
      [] i = 28 -> <<"Enables ECH heartrate pickup">>
      [] i = 30 -> <<"Enables BLE HR monitoring">>
      [] OTHER -> <<"Bit", i>>

status_str(is_set) == IF is_set # 0 THEN "ON" ELSE "OFF"

\* a dict is a set of <<key, value>> pairs with distinct keys
DictGet(d, k) == IF \E e \in d : e[1] = k THEN (CHOOSE e \in d : e[1] = k)[2] ELSE "None"

DictKeys(d) == {e[1] : e \in d}

\* a plausible slip: the loop counts the bits from 1, so entry i reads bit i + 1
get_bit_status_off_by_one(flags_hex) ==
    IF ~IsHexString(flags_hex)
    THEN [bit_status |-> {}, all_bits |-> <<>>]
    ELSE [bit_status |-> {<<str(i), status_str(BitOf(flags_hex, i + 1))>> : i \in specific_bits_map},
          all_bits |-> [n \in 1..BitCount |->
                          [Bit |-> n - 1,
                           Status |-> status_str(BitOf(flags_hex, n)),
                           Description |-> Description(n - 1)]]]

get_bit_status(flags_hex) ==
    IF ~IsStr(flags_hex) THEN Raised("AttributeError")
    ELSE IF ~IsHexString(flags_hex)
    THEN [bit_status |-> {}, all_bits |-> <<>>]
    ELSE [bit_status |-> {<<str(i), status_str(BitOf(flags_hex, i))>> : i \in specific_bits_map},
          all_bits |-> [n \in 1..BitCount |->
                          [Bit |-> n - 1,
                           Status |-> status_str(BitOf(flags_hex, n - 1)),
                           Description |-> Description(n - 1)]]]

\* a plausible slip: the pickup bit is read from key '24' instead of '28'
get_current_hr_mode_wrong_key(bit_status) ==
    LET bit_3 == DictGet(bit_status, "3")
        bit_28 == DictGet(bit_status, "24")
        bit_30 == DictGet(bit_status, "30")
    IN IF bit_3 = "ON" /\ bit_28 = "OFF" /\ bit_30 = "OFF" THEN "Polar Strap"
       ELSE IF bit_3 = "ON" /\ bit_28 = "ON" /\ bit_30 = "OFF" THEN "Integrated HR"
       ELSE IF bit_3 = "ON" /\ bit_28 = "OFF" /\ bit_30 = "ON" THEN "Bluetooth HR"
       ELSE "Unknown/Custom"

get_current_hr_mode(bit_status) ==
    LET bit_3 == DictGet(bit_status, "3")
        bit_28 == DictGet(bit_status, "28")
        bit_30 == DictGet(bit_status, "30")
    IN IF bit_3 = "ON" /\ bit_28 = "OFF" /\ bit_30 = "OFF" THEN "Polar Strap"
       ELSE IF bit_3 = "ON" /\ bit_28 = "ON" /\ bit_30 = "OFF" THEN "Integrated HR"
       ELSE IF bit_3 = "ON" /\ bit_28 = "OFF" /\ bit_30 = "ON" THEN "Bluetooth HR"
       ELSE "Unknown/Custom"

(***************************************************************************)
(* Flags values of the model: every string of one or two digits, and the   *)
(* 16-digit strings whose digits holding bits 0..3 and 28..31 take every   *)
(* value while the digit holding bits 24..27 and the remaining digits take *)
(* a few.                                                                  *)
(***************************************************************************)
FullFlags ==
    {[k \in 1..16 |-> CASE k = 16 -> d0 [] k = 9 -> d7 [] k = 10 -> d6 [] OTHER -> rest] :
        d0 \in HexDigits, d7 \in HexDigits, d6 \in {0, 1, 15}, rest \in {0, 15}}

FlagsStrings == NonEmptySeqsUpTo(HexDigits, 2) \cup FullFlags

\* arguments that are no hexadecimal string: "", text with another character,
\* None, int objects
OtherFlagsArguments ==
    {<<>>, <<16>>, <<1, 16>>, <<16, 15>>, None, PyInt(<<8>>),
     PyInt(<<5, 0, 0, 0, 0, 0, 0, 8>>)}

\* a few flags values for outputs of several lines
FewFlags == {<<8>>, <<5, 0, 0, 0, 0, 0, 0, 8>>}

(***************************************************************************)
(* get_connected_devices.  A line of the summary output is described by    *)
(* the pieces SUMMARY_PATTERN needs: the marker as written ("ID:", "id:"   *)
(* or absent), the digits after it, whether the ",Family=type/..., Ver v," *)
(* part is there, and the hexadecimal digits after "Flags=0x".             *)
(***************************************************************************)
MaxDevLines == 2

DevLines ==
    {[marker |-> "ID:", id |-> i, shape |-> TRUE, flags |-> <<8>>] : i \in FewIds}
    \cup
    {[marker |-> "ID:", id |-> <<7>>, shape |-> TRUE, flags |-> f] : f \in FewFlags}
    \cup
    {[marker |-> "id:", id |-> <<7>>, shape |-> TRUE, flags |-> <<8>>],
     [marker |-> "ID:", id |-> <<7>>, shape |-> FALSE, flags |-> <<8>>],
     [marker |-> "ID:", id |-> <<7>>, shape |-> TRUE, flags |-> <<>>],
     [marker |-> "id:", id |-> <<7>>, shape |-> TRUE, flags |-> <<>>],
     [marker |-> "ID:", id |-> <<>>, shape |-> TRUE, flags |-> <<8>>],
     [marker |-> "", id |-> <<>>, shape |-> TRUE, flags |-> <<8>>],
     [marker |-> "", id |-> <<>>, shape |-> FALSE, flags |-> <<>>]}

DevOutputs ==
    SeqsUpTo(DevLines, MaxDevLines)
    \cup
    {<<[marker |-> "ID:", id |-> <<7>>, shape |-> TRUE, flags |-> f]>> : f \in FlagsStrings}
    \cup
    {<<[marker |-> "ID:", id |-> i, shape |-> TRUE, flags |-> <<8>>]>> : i \in IdStrings}

\* SUMMARY_PATTERN.search(line), case-insensitive
SUMMARY_PATTERN(line) ==
    /\ line.marker \in {"ID:", "id:"}
    /\ line.id # <<>>
    /\ line.shape
    /\ IsHexString(line.flags)

\* "ID:" in line, case-sensitive
HasMarker(line) == line.marker = "ID:"

\* the record built for a matching line
DeviceData(line) ==
    LET bits == get_bit_status(line.flags) IN
    [id |-> lstrip0(line.id),
     type |-> "S7",
     firmware |-> "1.0",
     flags |-> line.flags,
     bit_status |-> bits.bit_status,
     all_bits |-> bits.all_bits,
     hr_mode |-> get_current_hr_mode(bits.bit_status)]

RECURSIVE get_connected_devices_loop(_, _, _)
get_connected_devices_loop(lines, devices, error_log) ==
    IF lines = <<>> THEN [devices |-> devices, error_log |-> error_log]
    ELSE LET line == Head(lines) IN
         IF SUMMARY_PATTERN(line)
         THEN get_connected_devices_loop(Tail(lines), Append(devices, DeviceData(line)), error_log)
         ELSE IF HasMarker(line)
         THEN get_connected_devices_loop(Tail(lines), devices,
                  Append(error_log, [msg |-> "Failed to parse line: ", line |-> <<line>>]))
         ELSE get_connected_devices_loop(Tail(lines), devices, error_log)

\* a plausible slip: a parse failure discards the devices parsed from other lines
get_connected_devices_fatal_parse(p) ==
    LET r == run_command(p) IN
    IF ~r.success
    THEN [data |-> <<>>,
          err |-> IF r.stderr # NoText THEN r.stderr ELSE Msg("Failed to run ConfigDevices.exe")]
    ELSE LET res == get_connected_devices_loop(r.stdout, <<>>, <<>>) IN
         IF res.devices = <<>> /\ res.error_log = <<>>
         THEN [data |-> <<>>, err |-> Msg("No devices found. Check connection.")]
         ELSE IF res.error_log # <<>>
         THEN [data |-> <<>>, err |-> res.error_log]
         ELSE [data |-> res.devices, err |-> res.error_log]

\* a plausible slip: an output without devices is returned as an empty success
get_connected_devices_empty_success(p) ==
    LET r == run_command(p) IN
    IF ~r.success
    THEN [data |-> <<>>,
          err |-> IF r.stderr # NoText THEN r.stderr ELSE Msg("Failed to run ConfigDevices.exe")]
    ELSE LET res == get_connected_devices_loop(r.stdout, <<>>, <<>>) IN
         [data |-> res.devices, err |-> res.error_log]

get_connected_devices(p) ==
    LET r == run_command(p) IN
    IF ~r.success
    THEN [data |-> <<>>,
          err |-> IF r.stderr # NoText THEN r.stderr ELSE Msg("Failed to run ConfigDevices.exe")]
    ELSE LET res == get_connected_devices_loop(r.stdout, <<>>, <<>>) IN
         IF res.devices = <<>> /\ res.error_log = <<>>
         THEN [data |-> <<>>, err |-> Msg("No devices found. Check connection.")]
         ELSE [data |-> res.devices, err |-> res.error_log]

(***************************************************************************)
(* get_6_5ghz_config.  A line of the -gsp output is described by the digit *)
(* strings GSP_PATTERN captures after "ID:", "txCode=" and "rxCode="       *)
(* (<<>> where the piece is missing, so that the pattern does not match).  *)
(***************************************************************************)
MaxCodeLen == 2

CodeDigits == {0, 3, 9}

CodeStrings == NonEmptySeqsUpTo(CodeDigits, MaxCodeLen)

GspLines ==
    {[id |-> <<7>>, tx |-> t, rx |-> r] : t \in CodeStrings, r \in CodeStrings}
    \cup
    {[id |-> i, tx |-> c, rx |-> c] : i \in IdStrings, c \in {<<9>>, <<3>>}}
    \cup
    {[id |-> <<7>>, tx |-> <<>>, rx |-> <<9>>], [id |-> <<>>, tx |-> <<9>>, rx |-> <<9>>],
     [id |-> <<>>, tx |-> <<>>, rx |-> <<>>]}

GspFewLines ==
    {[id |-> <<7>>, tx |-> <<9>>, rx |-> <<9>>], [id |-> <<0, 7>>, tx |-> <<3>>, rx |-> <<3>>],
     [id |-> <<7, 0>>, tx |-> <<9>>, rx |-> <<3>>], [id |-> <<>>, tx |-> <<>>, rx |-> <<>>]}

GspOutputs == SeqsUpTo(GspFewLines, MaxLines) \cup {<<l>> : l \in GspLines}

GSP_PATTERN(line) == line.id # <<>> /\ line.tx # <<>> /\ line.rx # <<>>

\* config_type is a label followed by the tx and rx texts it shows
config_type(tx, rx) ==
    IF tx = <<9>> /\ rx = <<9>> THEN [label |-> "Default", tx |-> <<9>>, rx |-> <<9>>]
    ELSE IF tx = <<3>> /\ rx = <<3>> THEN [label |-> "Alternative", tx |-> <<3>>, rx |-> <<3>>]
    ELSE [label |-> "Unknown", tx |-> tx, rx |-> rx]

RECURSIVE get_6_5ghz_config_loop(_, _)
get_6_5ghz_config_loop(lines, configs) ==
    IF lines = <<>> THEN configs
    ELSE LET line == Head(lines) IN
         IF GSP_PATTERN(line)
         THEN get_6_5ghz_config_loop(Tail(lines),
                  Append(configs, [id |-> lstrip0(line.id),
                                   config_type |-> config_type(line.tx, line.rx),
                                   raw |-> line]))
         ELSE get_6_5ghz_config_loop(Tail(lines), configs)

get_6_5ghz_config(p) ==
    LET r == run_command(p) IN
    IF ~r.success
    THEN [data |-> <<>>,
          err |-> IF r.stderr # NoText THEN r.stderr ELSE Msg("Failed to run -gsp command.")]
    ELSE [data |-> get_6_5ghz_config_loop(r.stdout, <<>>), err |-> NoText]

(***************************************************************************)
(* get_public_key.  A line of the -gpk output is described by the digit    *)
(* string after "ID:" and the hexadecimal digits after                     *)
(* ", Public Key Hash=" (<<>> where the piece is missing).                 *)
(***************************************************************************)
GpkLines ==
    {[id |-> i, key_hash |-> <<10, 11>>] : i \in IdStrings}
    \cup
    {[id |-> <<7>>, key_hash |-> <<>>], [id |-> <<>>, key_hash |-> <<1>>],
     [id |-> <<>>, key_hash |-> <<>>]}

GpkOutputs == SeqsUpTo(GpkLines, MaxDevLines)

GPK_PATTERN(line) == line.id # <<>> /\ line.key_hash # <<>>

RECURSIVE get_public_key_loop(_, _)
get_public_key_loop(lines, keys) ==
    IF lines = <<>> THEN keys
    ELSE LET line == Head(lines) IN
         IF GPK_PATTERN(line)
         THEN get_public_key_loop(Tail(lines),
                  Append(keys, [id |-> lstrip0(line.id), key_hash |-> line.key_hash]))
         ELSE get_public_key_loop(Tail(lines), keys)

get_public_key(p) ==
    LET r == run_command(p) IN
    IF ~r.success
    THEN [data |-> <<>>,
          err |-> IF r.stderr # NoText THEN r.stderr ELSE Msg("Failed to run -gpk command.")]
    ELSE [data |-> get_public_key_loop(r.stdout, <<>>), err |-> NoText]

(***************************************************************************)
(* set_hr_mode: the ordered commands of a mode, each run through           *)
(* run_command; cmds[k] is the behaviour the tool shows on the k-th        *)
(* command.  calls is the sequence of invocations made, log the returned   *)
(* text.                                                                   *)
(***************************************************************************)
\* a plausible slip: Bluetooth HR leaves the pickup bit alone and clears bit 24
HrCommands_wrong_clear(mode) ==
    CASE mode = "Polar Strap" -> <<<<"-ds", 3>>, <<"-dc", 28>>, <<"-dc", 30>>>>
      [] mode = "Integrated HR" -> <<<<"-ds", 3>>, <<"-ds", 28>>, <<"-dc", 30>>>>
      [] mode = "Bluetooth HR" -> <<<<"-ds", 3>>, <<"-ds", 30>>, <<"-dc", 24>>>>
      [] OTHER -> <<>>

HrCommands(mode) ==
    CASE mode = "Polar Strap" -> <<<<"-ds", 3>>, <<"-dc", 28>>, <<"-dc", 30>>>>
      [] mode = "Integrated HR" -> <<<<"-ds", 3>>, <<"-ds", 28>>, <<"-dc", 30>>>>
      [] mode = "Bluetooth HR" -> <<<<"-ds", 3>>, <<"-ds", 30>>, <<"-dc", 28>>>>
      [] OTHER -> <<>>

HrModes == {"Polar Strap", "Integrated HR", "Bluetooth HR"}

Invocation(args, r) == [args |-> args, success |-> r.success, stderr |-> r.stderr]

LogEntry(tag, args, text) == [tag |-> tag, args |-> args, text |-> text]

RECURSIVE set_hr_mode_loop(_, _, _, _)
set_hr_mode_loop(commands, cmds, calls, log) ==
    IF commands = <<>> THEN [calls |-> calls, log |-> log]
    ELSE LET args == Head(commands)
             r == run_command(Head(cmds))
         IN set_hr_mode_loop(Tail(commands), Tail(cmds),
                             Append(calls, Invocation(args, r)),
                             Append(log, IF r.success
                                         THEN LogEntry("SUCCESS: ", args, r.stdout)
                                         ELSE LogEntry("ERROR: ", args, r.stderr)))

\* a plausible slip: an unknown mode falls back to the first mode
set_hr_mode_fallback(mode, cmds) ==
    LET m == IF mode \in HrModes THEN mode ELSE "Polar Strap"
        res == set_hr_mode_loop(HrCommands(m), cmds, <<>>,
                                <<LogEntry("--- Setting HR Mode to: ", <<m>>, <<>>)>>)
    IN [calls |-> res.calls,
        log |-> Append(res.log, LogEntry("--- HR Mode setting complete. ---", <<>>, <<>>))]

set_hr_mode(mode, cmds) ==
    IF mode \notin HrModes
    THEN [calls |-> <<>>, log |-> <<LogEntry("Invalid mode selected.", <<>>, <<>>)>>]
    ELSE LET res == set_hr_mode_loop(HrCommands(mode), cmds, <<>>,
                                     <<LogEntry("--- Setting HR Mode to: ", <<mode>>, <<>>)>>)
         IN [calls |-> res.calls,
             log |-> Append(res.log, LogEntry("--- HR Mode setting complete. ---", <<>>, <<>>))]

(***************************************************************************)
(* set_6_5ghz_config: one command, or none for an unknown mode.            *)
(***************************************************************************)
GhzModes == {"Default", "Alternative"}

GhzArgs(mode) ==
    CASE mode = "Default" -> <<"-ssp", 5, 2, 36, 1, 9, 9, 0, 2, 3, 4161, 181, "0x1F1F1F1F">>
      [] mode = "Alternative" -> <<"-ssp", 5, 1, 36, 1, 3, 3, 0, 2, 3, 4161, 181, "0x1F1F1F1F">>
      [] OTHER -> <<>>

set_6_5ghz_config(mode, cmds) ==
    IF mode \notin GhzModes
    THEN [calls |-> <<>>, log |-> <<LogEntry("Invalid mode selected.", <<>>, <<>>)>>]
    ELSE LET args == GhzArgs(mode)
             r == run_command(cmds[1])
         IN [calls |-> <<Invocation(args, r)>>,
             log |-> <<LogEntry("--- Setting 6.5 GHz Config to: ", <<mode>>, <<>>),
                       IF r.success THEN LogEntry("SUCCESS: ", args, r.stdout)
                       ELSE LogEntry("ERROR: ", args, r.stderr),
                       LogEntry("--- 6.5 GHz Config setting complete. ---", <<>>, <<>>)>>]

(***************************************************************************)
(* The flags register of the device under the commands of set_hr_mode: a   *)
(* command that succeeds takes effect, "-ds N" sets bit N and "-dc N"      *)
(* clears it; a command that fails changes nothing.  The register is a     *)
(* flags string of 16 digits.                                              *)
(***************************************************************************)
WriteBit(flags, n, v) ==
    LET k == 16 - (n \div 4)
        w == Pow2(n % 4)
        old == (flags[k] \div w) % 2
    IN [flags EXCEPT ![k] = @ - old * w + v * w]

RECURSIVE DeviceAfter(_, _)
DeviceAfter(flags, calls) ==
    IF calls = <<>> THEN flags
    ELSE LET call == Head(calls)
             next == IF ~call.success THEN flags
                     ELSE WriteBit(flags, call.args[2], IF call.args[1] = "-ds" THEN 1 ELSE 0)
         IN DeviceAfter(next, Tail(calls))

(***************************************************************************)
(* refresh_device_data: the scan.  scan is the behaviour the tool shows on *)
(* each of the four queries.  The result is the new session state and the  *)
(* invocations made.                                                       *)
(***************************************************************************)
EmptyPiece == [msg |-> "", line |-> <<>>]

\* a + "\n" + b on texts
JoinLine(a, b) ==
    (IF a = <<>> THEN <<EmptyPiece>> ELSE a) \o (IF b = <<>> THEN <<EmptyPiece>> ELSE b)

AddError(scan_errors, err) == IF err # NoText THEN JoinLine(scan_errors, err) ELSE scan_errors

refresh_device_data(st, scan) ==
    LET dev == get_connected_devices(scan.devices)
        ghz == get_6_5ghz_config(scan.gsp)
        keys == get_public_key(scan.gpk)
        sess == list_sessions(scan.si)
    IN IF dev.data # <<>>
       THEN [state |-> [devices |-> dev.data,
                        scan_errors |-> AddError(AddError(AddError(dev.err, ghz.err), keys.err),
                                                 sess.err),
                        ghz_config |-> ghz.data,
                        public_keys |-> keys.data,
                        sessions |-> sess.data],
             calls |-> <<Invocation(<<>>, run_command(scan.devices)),
                         Invocation(<<"-gsp">>, run_command(scan.gsp)),
                         Invocation(<<"-gpk">>, run_command(scan.gpk)),
                         Invocation(<<"-si">>, run_command(scan.si))>>]
       ELSE [state |-> [st EXCEPT !.devices = dev.data, !.scan_errors = dev.err],
             calls |-> <<Invocation(<<>>, run_command(scan.devices))>>]

(***************************************************************************)
(* Behaviours of the tool met by the handlers of the application.          *)
(***************************************************************************)
Answers(o) == [exists |-> TRUE, timed_out |-> FALSE, returncode |-> 0, stdout |-> o, stderr |-> NoText]

Fails == [exists |-> TRUE, timed_out |-> FALSE, returncode |-> 1, stdout |-> <<>>,
          stderr |-> Msg("tool stderr")]

TimesOut == [exists |-> TRUE, timed_out |-> TRUE, returncode |-> 0, stdout |-> <<>>, stderr |-> NoText]

ScanBehaviours ==
    [devices : {TimesOut, Answers(<<>>),
                Answers(<<[marker |-> "ID:", id |-> <<7>>, shape |-> TRUE, flags |-> <<8>>]>>),
                Answers(<<[marker |-> "ID:", id |-> <<4>>, shape |-> TRUE, flags |-> <<8>>],
                          [marker |-> "ID:", id |-> <<7>>, shape |-> FALSE, flags |-> <<>>]>>)},
     gsp : {Fails, Answers(<<[id |-> <<7>>, tx |-> <<9>>, rx |-> <<9>>]>>)},
     gpk : {TimesOut, Answers(<<[id |-> <<7>>, key_hash |-> <<10, 11>>]>>)},
     si : {Fails, Answers(<<[start_id |-> <<7>>, session_num |-> 0],
                            [start_id |-> <<>>, session_num |-> 1]>>)}]

CommandBehaviours == [1..3 -> {Answers(<<>>), Fails}]

\* modes a caller may pass that the functions do not know
OtherModes == {"", "polar strap", "default"}

\* the tool on the commands of a handler: all succeed, or one of them fails
SetBehaviours ==
    {c \in CommandBehaviours : Cardinality({k \in 1..3 : c[k] = Fails}) <= 1}

RegisterValues == {f \in FullFlags : f[10] # 1}

(***************************************************************************)
(* run_raw_file_viewer: the external viewer.  Its behaviour is whether the *)
(* executable and the raw file exist, its exit status and its output       *)
(* (stdout and stderr combined).                                           *)
(***************************************************************************)
run_raw_file_viewer(p) ==
    IF ~p.exists
    THEN [success |-> FALSE, stdout |-> <<>>, stderr |-> Msg("Error: viewer.exe not found")]
    ELSE IF ~p.file_exists
    THEN [success |-> FALSE, stdout |-> <<>>, stderr |-> Msg("Error: Raw file not found")]
    ELSE IF p.returncode # 0
    THEN [success |-> FALSE,
          stdout |-> IF p.stdout # <<>> THEN p.stdout
                     ELSE Msg("Command failed with return code and no output."),
          stderr |-> NoText]
    ELSE [success |-> TRUE, stdout |-> p.stdout, stderr |-> NoText]

(***************************************************************************)
(* parse_orientation_data.  The text is a sequence of lines, a line a      *)
(* sequence of characters; " " stands for any whitespace and "x" for any   *)
(* character outside the orientation alphabet.  The float percentage is    *)
(* the exact fraction num / den.                                           *)
(***************************************************************************)
MaxOrLen == 3

OrChars == {"+", "r", "u", ".", " ", "x"}

FewOrLines ==
    {<<>>, <<" ">>, <<"x">>, <<" ", "r", "+">>,
     <<"+", "+", "+", "r", "u">>, <<".", ".", "+", "u", "r", "u">>}

OrientationTexts ==
    SeqsUpTo(FewOrLines, MaxLines) \cup {<<l>> : l \in SeqsUpTo(OrChars, MaxOrLen)}

RECURSIVE lstrip(_)
lstrip(s) == IF s # <<>> /\ Head(s) = " " THEN lstrip(Tail(s)) ELSE s

RECURSIVE rstrip(_)
rstrip(s) ==
    IF s # <<>> /\ s[Len(s)] = " " THEN rstrip(SubSeq(s, 1, Len(s) - 1)) ELSE s

strip(s) == rstrip(lstrip(s))

\* [line.strip() for line in raw_output.splitlines() if line.strip()]
RECURSIVE StrippedLines(_)
StrippedLines(raw) ==
    IF raw = <<>> THEN <<>>
    ELSE IF strip(Head(raw)) # <<>> THEN <<strip(Head(raw))>> \o StrippedLines(Tail(raw))
    ELSE StrippedLines(Tail(raw))

ORIENTATION_PATTERN(line) ==
    line # <<>> /\ \A i \in 1..Len(line) : line[i] \in {"+", "r", "u", "."}

\* for line in reversed(lines): first match wins
RECURSIVE reversed_scan(_)
reversed_scan(lines) ==
    IF lines = <<>> THEN <<>>
    ELSE IF ORIENTATION_PATTERN(lines[Len(lines)]) THEN lines[Len(lines)]
    ELSE reversed_scan(SubSeq(lines, 1, Len(lines) - 1))

RECURSIVE count(_, _)
count(s, c) ==
    IF s = <<>> THEN 0
    ELSE (IF Head(s) = c THEN 1 ELSE 0) + count(Tail(s), c)

orientation_result(orientation_string) ==
    IF orientation_string = <<>>
    THEN [orientation_string |-> <<>>, counts |-> {},
          correct_percentage |-> [num |-> 0, den |-> 1]]
    ELSE LET total_readings == Len(orientation_string)
             okay == count(orientation_string, "+")
         IN [orientation_string |-> orientation_string,
             counts |-> {<<"Okay (+)", okay>>,
                         <<"Reversed (r)", count(orientation_string, "r")>>,
                         <<"Upside Down (u)", count(orientation_string, "u")>>,
                         <<"Flat (.)", count(orientation_string, ".")>>},
             correct_percentage |->
                 IF total_readings > 0 THEN [num |-> okay * 100, den |-> total_readings]
                 ELSE [num |-> 0, den |-> 1]]

\* a plausible slip: scanning from the top
parse_orientation_data_first_match(raw_output) ==
    LET lines == StrippedLines(raw_output)
        hits == {i \in 1..Len(lines) : ORIENTATION_PATTERN(lines[i])}
    IN orientation_result(IF hits = {} THEN <<>>
                          ELSE lines[CHOOSE i \in hits : \A j \in hits : i <= j])

parse_orientation_data(raw_output) ==
    orientation_result(reversed_scan(StrippedLines(raw_output)))

(***************************************************************************)
(* parse_debug_data.  The text is a sequence of lines; a line that         *)
(* BATTERY_PATTERN matches carries the three captured strings, sequences   *)
(* of characters.  A float is kept in tenths; the texts drawn have at most *)
(* one digit after the point.  The character "9{400}" stands for a run of  *)
(* 400 nines, a number past the range of a float, which float() turns into *)
(* inf.  Values of the summary are sequences of characters, the summary a  *)
(* dict.                                                                   *)
(***************************************************************************)
MaxPoints == 3

\* float('inf'); every other float of the model is a number of tenths >= 0
Infinity == -1

DigitChars == <<"0", "1", "2", "3", "4", "5", "6", "7", "8", "9">>

DigitVal(c) == (CHOOSE i \in 1..10 : DigitChars[i] = c) - 1

OtherLine == [battery |-> FALSE, time_s |-> <<>>, voltage |-> <<>>, percent |-> <<>>]

BatteryLine(t, v, p) == [battery |-> TRUE, time_s |-> t, voltage |-> v, percent |-> p]

\* captures of (?P<time_s>[\d\.]+)
TimeTexts ==
    {<<"0">>, <<"6", "0", "0">>, <<"1", "8", "0", "0">>, <<"3", "6", "0", "0">>,
     <<"9", "0", ".", "5">>, <<"1", ".", "2", ".", "3">>, <<".">>, <<"9{400}">>}

\* captures of (?P<voltage>[\d\.]+)
VoltageTexts == {<<"3", ".", "9">>, <<"4", ".", ".", "1">>}

\* captures of (?P<percent>\d+)
PercentTexts == {<<"5", "0">>, <<"4", "5">>, <<"2", "0">>, <<"0", "7">>}

FewDebugLines ==
    {OtherLine,
     BatteryLine(<<"0">>, <<"3", ".", "9">>, <<"5", "0">>),
     BatteryLine(<<"6", "0", "0">>, <<"3", ".", "9">>, <<"4", "5">>),
     BatteryLine(<<"3", "6", "0", "0">>, <<"3", ".", "9">>, <<"2", "0">>),
     BatteryLine(<<"1", "8", "0", "0">>, <<"3", ".", "9">>, <<"5", "0">>),
     BatteryLine(<<"9", "0", ".", "5">>, <<"3", ".", "9">>, <<"0", "7">>),
     BatteryLine(<<"1", ".", "2", ".", "3">>, <<"3", ".", "9">>, <<"4", "5">>),
     BatteryLine(<<"9{400}">>, <<"3", ".", "9">>, <<"2", "0">>)}

DebugTexts ==
    SeqsUpTo(FewDebugLines, MaxPoints)
        \cup {<<BatteryLine(t, v, p)>> : t \in TimeTexts, v \in VoltageTexts, p \in PercentTexts}

BATTERY_PATTERN(line) == line.battery

\* float(s) raises ValueError: more than one point, or no digit
float_raises(s) == count(s, ".") > 1 \/ Len(s) = count(s, ".")

RECURSIVE int(_)
int(digits) ==
    IF digits = <<>> THEN 0
    ELSE int(SubSeq(digits, 1, Len(digits) - 1)) * 10 + DigitVal(digits[Len(digits)])

\* float(s), in tenths
float(s) ==
    IF \E i \in 1..Len(s) : s[i] = "9{400}" THEN Infinity ELSE
    LET dot == IF count(s, ".") = 0 THEN Len(s) + 1 ELSE CHOOSE i \in 1..Len(s) : s[i] = "."
        frac == SubSeq(s, dot + 1, Len(s))
    IN int(SubSeq(s, 1, dot - 1)) * 10 + (IF frac = <<>> THEN 0 ELSE DigitVal(frac[1]))

\* decimal digits of a natural number
RECURSIVE digits_of(_)
digits_of(n) ==
    IF n < 10 THEN <<DigitChars[n + 1]>>
    ELSE digits_of(n \div 10) \o <<DigitChars[(n % 10) + 1]>>

\* f"{n:02}" : the sign counts in the width of two
format_02(n) ==
    IF n < 0 THEN <<"-">> \o digits_of(-n)
    ELSE IF n < 10 THEN <<"0">> \o digits_of(n)
    ELSE digits_of(n)

\* f"{x:.0f}" of a float with an integral value, given in tenths
format_0f(tenths) ==
    IF tenths < 0 THEN <<"-">> \o digits_of((-tenths) \div 10)
    ELSE digits_of(tenths \div 10)

NA == <<"N", "/", "A">>

EmptySummary ==
    {<<"first_reading", NA>>, <<"last_reading", NA>>, <<"time_elapsed_str", NA>>,
     <<"percent_drop", NA>>}

DataPoint(m) ==
    [time_s |-> float(m.time_s), voltage |-> float(m.voltage), percent |-> float(m.percent)]

RECURSIVE DataPoints(_)
DataPoints(matches) ==
    IF matches = <<>> THEN <<>>
    ELSE <<DataPoint(Head(matches))>> \o DataPoints(Tail(matches))

debug_summary(matches) ==
    LET first_match == matches[1]
        last_match == matches[Len(matches)]
        first_time_s == float(first_match.time_s)
        first_percent == float(first_match.percent)
        last_time_s == float(last_match.time_s)
        last_percent == float(last_match.percent)
        time_delta_seconds == last_time_s - first_time_s
        total_minutes == time_delta_seconds \div 600
        total_hours == total_minutes \div 60
        remaining_minutes == total_minutes % 60
        percent_drop_val == first_percent - last_percent
    IN {<<"first_reading", format_0f(first_percent) \o <<"%">> >>,
        <<"last_reading", format_0f(last_percent) \o <<"%">> >>,
        <<"time_elapsed_str", format_02(total_hours) \o <<":">> \o format_02(remaining_minutes)>>,
        <<"percent_drop", format_0f(percent_drop_val) \o <<"%">> >>}

ErrorText == <<"Error parsing debug data: could not convert string to float">>

NaNErrorText == <<"Error parsing debug data: cannot convert float NaN to integer">>

\* int(time_delta_seconds // 60) raises: inf // 60 and nan // 60 are nan
int_raises(matches) ==
    float(matches[1].time_s) = Infinity \/ float(matches[Len(matches)].time_s) = Infinity

\* the summary when the fault comes after the two readings were stored
partial_summary(matches) ==
    {<<"first_reading", format_0f(float(matches[1].percent)) \o <<"%">> >>,
     <<"last_reading", format_0f(float(matches[Len(matches)].percent)) \o <<"%">> >>,
     <<"time_elapsed_str", NA>>, <<"percent_drop", NA>>, <<"error", NaNErrorText>>}

\* a plausible slip: the fault is swallowed without the error tag
parse_debug_data_untagged(raw_output) ==
    LET matches == SelectSeq(raw_output, BATTERY_PATTERN)
    IN IF matches = <<>> THEN [summary |-> EmptySummary, all_data_points |-> <<>>]
       ELSE IF \E i \in 1..Len(matches) :
                   float_raises(matches[i].time_s) \/ float_raises(matches[i].voltage)
       THEN [summary |-> EmptySummary, all_data_points |-> <<>>]
       ELSE IF int_raises(matches)
       THEN [summary |-> partial_summary(matches) \ {<<"error", NaNErrorText>>},
             all_data_points |-> DataPoints(matches)]
       ELSE [summary |-> debug_summary(matches), all_data_points |-> DataPoints(matches)]

parse_debug_data(raw_output) ==
    LET matches == SelectSeq(raw_output, BATTERY_PATTERN)
    IN IF matches = <<>> THEN [summary |-> EmptySummary, all_data_points |-> <<>>]
       ELSE IF \E i \in 1..Len(matches) :
                   float_raises(matches[i].time_s) \/ float_raises(matches[i].voltage)
       THEN [summary |-> EmptySummary \cup {<<"error", ErrorText>>}, all_data_points |-> <<>>]
       ELSE IF int_raises(matches)
       THEN [summary |-> partial_summary(matches), all_data_points |-> DataPoints(matches)]
       ELSE [summary |-> debug_summary(matches), all_data_points |-> DataPoints(matches)]

(***************************************************************************)
(* State machine of the core.  A behaviour is one call of one query        *)
(* function: Init draws the function and the behaviour of the external     *)
(* tool it will meet, the action applies the function (pc goes from        *)
(* "ready" to "done").                                                     *)
(***************************************************************************)
InitSessionState ==
    [devices |-> <<>>, scan_errors |-> <<>>, ghz_config |-> <<>>, public_keys |-> <<>>,
     sessions |-> <<>>]

\* the child process of an invocation: none before one is started
NoChild == [state |-> "none", elapsed |-> 0]

AppIdle ==
    /\ session_state = InitSessionState
    /\ invoked = <<>>
    /\ output_log = <<>>
    /\ proc = NoChild

InitCore ==
    /\ pc = "ready"
    /\ out = <<>>
    /\ AppIdle
    /\ \/ fn = "list_sessions" /\ inp \in ProcBehaviours(SiOutputs)
       \/ fn = "get_connected_devices" /\ inp \in ProcBehaviours(DevOutputs)
       \/ fn = "get_bit_status" /\ inp \in FlagsStrings \cup OtherFlagsArguments
       \/ fn = "get_6_5ghz_config" /\ inp \in ProcBehaviours(GspOutputs)
       \/ fn = "get_public_key" /\ inp \in ProcBehaviours(GpkOutputs)
       \/ fn = "parse_orientation_data" /\ inp \in OrientationTexts
       \/ fn = "parse_debug_data" /\ inp \in DebugTexts
       \/ fn = "set_hr_mode"
            /\ inp \in [mode : HrModes \cup OtherModes, cmds : SetBehaviours, flags : RegisterValues]
       \/ fn = "set_6_5ghz_config"
            /\ inp \in [mode : GhzModes \cup OtherModes, cmds : SetBehaviours, flags : {<<8>>}]
       \/ fn = "get_current_hr_mode" /\ inp \in {f \in FlagsStrings \cup OtherFlagsArguments : IsStr(f)}

ListSessions ==
    /\ pc = "ready" /\ fn = "list_sessions"
    /\ out' = list_sessions(inp)
    /\ pc' = "done"
    /\ UNCHANGED <<fn, inp, session_state, invoked, output_log, proc>>

GetConnectedDevices ==
    /\ pc = "ready" /\ fn = "get_connected_devices"
    /\ out' = get_connected_devices(inp)
    /\ pc' = "done"
    /\ UNCHANGED <<fn, inp, session_state, invoked, output_log, proc>>

GetBitStatus ==
    /\ pc = "ready" /\ fn = "get_bit_status"
    /\ out' = get_bit_status(inp)
    /\ pc' = "done"
    /\ UNCHANGED <<fn, inp, session_state, invoked, output_log, proc>>

Get65GhzConfig ==
    /\ pc = "ready" /\ fn = "get_6_5ghz_config"
    /\ out' = get_6_5ghz_config(inp)
    /\ pc' = "done"
    /\ UNCHANGED <<fn, inp, session_state, invoked, output_log, proc>>

GetPublicKey ==
    /\ pc = "ready" /\ fn = "get_public_key"
    /\ out' = get_public_key(inp)
    /\ pc' = "done"
    /\ UNCHANGED <<fn, inp, session_state, invoked, output_log, proc>>

ParseOrientationData ==
    /\ pc = "ready" /\ fn = "parse_orientation_data"
    /\ out' = parse_orientation_data(inp)
    /\ pc' = "done"
    /\ UNCHANGED <<fn, inp, session_state, invoked, output_log, proc>>

ParseDebugData ==
    /\ pc = "ready" /\ fn = "parse_debug_data"
    /\ out' = parse_debug_data(inp)
    /\ pc' = "done"
    /\ UNCHANGED <<fn, inp, session_state, invoked, output_log, proc>>

\* the mode derived from a flags string: the decode, then the classification
\* of its subset (a dict in every case, so the classification cannot fault)
GetCurrentHrMode ==
    /\ pc = "ready" /\ fn = "get_current_hr_mode"
    /\ out' = LET bits == get_bit_status(inp)
              IN [bit_status |-> bits.bit_status, all_bits |-> bits.all_bits,
                  hr_mode |-> get_current_hr_mode(bits.bit_status)]
    /\ pc' = "done"
    /\ UNCHANGED <<fn, inp, session_state, invoked, output_log, proc>>

\* set_hr_mode on a device, then the mode read back from its flags
SetHrMode ==
    /\ pc = "ready" /\ fn = "set_hr_mode"
    /\ out' = LET set == set_hr_mode(inp.mode, inp.cmds)
                  flags == DeviceAfter(inp.flags, set.calls)
              IN [calls |-> set.calls, log |-> set.log, flags |-> flags,
                  hr_mode |-> get_current_hr_mode(get_bit_status(flags).bit_status)]
    /\ pc' = "done"
    /\ UNCHANGED <<fn, inp, session_state, invoked, output_log, proc>>

Set65GhzConfig ==
    /\ pc = "ready" /\ fn = "set_6_5ghz_config"
    /\ out' = LET set == set_6_5ghz_config(inp.mode, inp.cmds)
              IN [calls |-> set.calls, log |-> set.log, flags |-> inp.flags]
    /\ pc' = "done"
    /\ UNCHANGED <<fn, inp, session_state, invoked, output_log, proc>>

NextCore ==
    \/ ListSessions
    \/ GetConnectedDevices
    \/ GetBitStatus
    \/ Get65GhzConfig
    \/ GetPublicKey
    \/ ParseOrientationData
    \/ ParseDebugData
    \/ GetCurrentHrMode
    \/ SetHrMode
    \/ Set65GhzConfig

SpecCore == InitCore /\ [][NextCore]_vars

(***************************************************************************)
(* State machine of the application: the handlers of the Device Manager    *)
(* tab.  fn names the handler that ran last, invoked the invocations of    *)
(* the tool it made, output_log the log it showed.                         *)
(***************************************************************************)
Init ==
    /\ fn = "none"
    /\ inp = <<>>
    /\ out = <<>>
    /\ pc = "idle"
    /\ AppIdle

\* the button "Scan for Devices & Refresh All Data"
ScanForDevices ==
    \E scan \in ScanBehaviours :
        LET res == refresh_device_data(session_state, scan) IN
        /\ fn' = "refresh_device_data"
        /\ session_state' = res.state
        /\ invoked' = res.calls
        /\ output_log' = <<>>
        /\ UNCHANGED <<inp, out, pc, proc>>

\* the button "Apply HR Setting to Device" of a device tab
ApplyHrSetting ==
    /\ session_state.devices # <<>>
    /\ \E mode \in HrModes, cmds \in CommandBehaviours, scan \in ScanBehaviours :
         LET set == set_hr_mode(mode, cmds)
             res == refresh_device_data(session_state, scan)
         IN /\ fn' = "set_hr_mode"
            /\ inp' = mode
            /\ session_state' = res.state
            /\ invoked' = set.calls \o res.calls
            /\ output_log' = set.log
            /\ UNCHANGED <<out, pc, proc>>

Next == ScanForDevices \/ ApplyHrSetting

Spec == Init /\ [][Next]_vars

(***************************************************************************)
(* State machine of one invocation of an external process, in steps of the *)
(* caller and of the child.  The clock counts the seconds the caller has   *)
(* waited.  run_command waits with communicate(timeout=10): the wait ends  *)
(* at the timeout and the child is killed.  run_raw_file_viewer waits with *)
(* subprocess.run without a timeout.  A child may never exit.              *)
(***************************************************************************)
TIMEOUT == 10

MaxClock == 12

ChildOutputs == {<<>>, Msg("tool output")}

ChildBehaviours ==
    [exists : BOOLEAN, file_exists : BOOLEAN, timed_out : {FALSE}, returncode : {0, 1},
     stdout : ChildOutputs, stderr : StderrTexts]

InitProc ==
    /\ pc = "ready"
    /\ out = <<>>
    /\ AppIdle
    /\ fn \in {"run_command", "run_raw_file_viewer"}
    /\ inp \in ChildBehaviours

\* os.path.exists fails: the call returns at once, no child is started
ReturnNotFound ==
    /\ pc = "ready" /\ fn \in {"run_command", "run_raw_file_viewer"}
    /\ \/ fn = "run_command" /\ ~inp.exists /\ out' = run_command(inp)
       \/ fn = "run_raw_file_viewer" /\ (~inp.exists \/ ~inp.file_exists)
             /\ out' = run_raw_file_viewer(inp)
    /\ pc' = "done"
    /\ UNCHANGED <<fn, inp, session_state, invoked, output_log, proc>>

\* subprocess.Popen / subprocess.run starts the child
StartChild ==
    /\ pc = "ready" /\ fn \in {"run_command", "run_raw_file_viewer"}
    /\ inp.exists
    /\ fn = "run_raw_file_viewer" => inp.file_exists
    /\ proc' = [state |-> "running", elapsed |-> 0]
    /\ pc' = "waiting"
    /\ UNCHANGED <<fn, inp, out, session_state, invoked, output_log>>

\* the child exits by itself
ChildExits ==
    /\ pc = "waiting" /\ proc.state = "running"
    /\ proc' = [proc EXCEPT !.state = "exited"]
    /\ UNCHANGED <<fn, inp, out, pc, session_state, invoked, output_log>>

\* a second passes while the caller waits for a running child
Tick ==
    /\ pc = "waiting" /\ proc.state = "running"
    /\ proc.elapsed < MaxClock
    /\ fn = "run_command" => proc.elapsed < TIMEOUT
    /\ proc' = [proc EXCEPT !.elapsed = @ + 1]
    /\ UNCHANGED <<fn, inp, out, pc, session_state, invoked, output_log>>

\* subprocess.TimeoutExpired in run_command: process.kill() and a failure result
TimeoutExpired ==
    /\ pc = "waiting" /\ proc.state = "running"
    /\ fn = "run_command" /\ proc.elapsed = TIMEOUT
    /\ proc' = [proc EXCEPT !.state = "killed"]
    /\ out' = run_command([inp EXCEPT !.timed_out = TRUE])
    /\ pc' = "done"
    /\ UNCHANGED <<fn, inp, session_state, invoked, output_log>>

\* the wait ends because the child has exited
ReturnResult ==
    /\ pc = "waiting" /\ proc.state = "exited"
    /\ out' = IF fn = "run_command" THEN run_command(inp) ELSE run_raw_file_viewer(inp)
    /\ pc' = "done"
    /\ UNCHANGED <<fn, inp, session_state, invoked, output_log, proc>>

NextProc ==
    \/ ReturnNotFound
    \/ StartChild
    \/ ChildExits
    \/ Tick
    \/ TimeoutExpired
    \/ ReturnResult

SpecProc == InitProc /\ [][NextProc]_vars

(***************************************************************************)
(* Vocabulary of the properties.                                           *)
(***************************************************************************)
Called(f) == pc = "done" /\ fn = f

\* a non-negative integer rendered without leading zeros
Canonical(digits) == IF lstrip0(digits) = <<>> THEN <<0>> ELSE lstrip0(digits)

IsCanonical(id) == id # <<>> /\ (Head(id) # 0 \/ id = <<0>>)

IsHeaderLine(line) == SI_START_PATTERN(line)

IsSessionLine(line) == SI_SESSION_PATTERN(line) /\ ~SI_START_PATTERN(line)

HeaderIndices(lines) == {i \in 1..Len(lines) : IsHeaderLine(lines[i])}

\* index of the header a line stands under, 0 when no header precedes it
HeaderBefore(lines, i) ==
    LET before == {j \in HeaderIndices(lines) : j < i} IN
    IF before = {} THEN 0 ELSE CHOOSE j \in before : \A k \in before : k <= j

FirstHeader(lines) ==
    IF HeaderIndices(lines) = {} THEN Len(lines) + 1
    ELSE CHOOSE j \in HeaderIndices(lines) : \A k \in HeaderIndices(lines) : j <= k

\* the session lines standing under a header whose canonical id is key
RECURSIVE SessionsUnder(_, _, _)
SessionsUnder(lines, key, i) ==
    IF i > Len(lines) THEN <<>>
    ELSE IF /\ IsSessionLine(lines[i])
            /\ HeaderBefore(lines, i) # 0
            /\ Canonical(lines[HeaderBefore(lines, i)].start_id) = key
    THEN <<SessionData(lines[i])>> \o SessionsUnder(lines, key, i + 1)
    ELSE SessionsUnder(lines, key, i + 1)

RECURSIVE TotalRecords(_)
TotalRecords(d) == IF d = <<>> THEN 0 ELSE Len(Head(d).recs) + TotalRecords(Tail(d))

DistinctKeys(d) == \A i, j \in 1..Len(d) : d[i].id = d[j].id => i = j

(***************************************************************************)
(* C1: list_sessions groups the session lines by header: the lines that    *)
(* follow a header for id D, up to the next header, are in stream order in *)
(* the group keyed by D's canonical id (ids made only of zeros included),  *)
(* a repeated header continues its group, and every session line under a   *)
(* header is in exactly one group.                                         *)
(***************************************************************************)
C1_GroupedByHeader ==
    (Called("list_sessions") /\ run_command(inp).success) =>
        LET lines == inp.stdout
            d == out.data
        IN /\ DistinctKeys(d)
           /\ \A i \in HeaderIndices(lines) :
                 LET key == Canonical(lines[i].start_id) IN
                 /\ HasKey(d, key)
                 /\ GroupOf(d, key) = SessionsUnder(lines, key, 1)
           /\ TotalRecords(d) =
                 Cardinality({i \in 1..Len(lines) :
                                 IsSessionLine(lines[i]) /\ HeaderBefore(lines, i) # 0})

(***************************************************************************)
(* C2: a session line that occurs before any header line is dropped: it    *)
(* creates no group key, it is in no group (neither a default one nor the  *)
(* group of a later header), and the result is the one the stream without  *)
(* those lines gives.                                                      *)
(***************************************************************************)
C2_OrphanSessionsDropped ==
    (Called("list_sessions") /\ run_command(inp).success) =>
        LET lines == inp.stdout
            d == out.data
            first == FirstHeader(lines)
        IN /\ KeysOf(d) = {lstrip0(lines[i].start_id) : i \in HeaderIndices(lines)}
           /\ TotalRecords(d) <=
                 Cardinality({i \in 1..Len(lines) : IsSessionLine(lines[i]) /\ i > first})
           /\ d = list_sessions(
                     [inp EXCEPT !.stdout = SubSeq(lines, first, Len(lines))]).data
           /\ HeaderIndices(lines) = {} => d = <<>>

C2_Witness ==
    /\ Called("list_sessions") /\ run_command(inp).success
    /\ Len(inp.stdout) = 3
    /\ inp.stdout[1] = [start_id |-> <<>>, session_num |-> 1]
    /\ inp.stdout[2] = [start_id |-> <<7>>, session_num |-> 0]
    /\ inp.stdout[3] = [start_id |-> <<>>, session_num |-> 2]
    /\ out.data = <<[id |-> <<7>>, recs |-> <<[num |-> 2, Select |-> FALSE]>>]>>

(***************************************************************************)
(* The 64-bit value of a flags string, as the sequence of its bits, least  *)
(* significant first: Bits64(F)[i + 1] is bit i.                           *)
(***************************************************************************)
NibbleBits(d) == <<d % 2, (d \div 2) % 2, (d \div 4) % 2, (d \div 8) % 2>>

RECURSIVE BitsLsbFirst(_)
BitsLsbFirst(hex) ==
    IF hex = <<>> THEN <<>>
    ELSE NibbleBits(hex[Len(hex)]) \o BitsLsbFirst(SubSeq(hex, 1, Len(hex) - 1))

Bits64(hex) ==
    LET b == BitsLsbFirst(hex) IN [n \in 1..64 |-> IF n <= Len(b) THEN b[n] ELSE 0]

Pad16(hex) == [k \in 1..16 |-> IF k > 16 - Len(hex) THEN hex[k - (16 - Len(hex))] ELSE 0]

\* the flags string of the value that differs from hex in bit b only
FlipBit(hex, b) ==
    LET p == Pad16(hex)
        k == 16 - (b \div 4)
        weight == CASE b % 4 = 0 -> 1 [] b % 4 = 1 -> 2 [] b % 4 = 2 -> 4 [] b % 4 = 3 -> 8
    IN [p EXCEPT ![k] = IF (p[k] \div weight) % 2 = 1 THEN p[k] - weight ELSE p[k] + weight]

ModeTable(b3, b28, b30) ==
    CASE b3 = 1 /\ b28 = 0 /\ b30 = 0 -> "Polar Strap"
      [] b3 = 1 /\ b28 = 1 /\ b30 = 0 -> "Integrated HR"
      [] b3 = 1 /\ b28 = 0 /\ b30 = 1 -> "Bluetooth HR"
      [] OTHER -> "Unknown/Custom"

OnOff(b) == IF b = 1 THEN "ON" ELSE "OFF"

(***************************************************************************)
(* C3: the heart-rate mode derived for a device follows the decision table *)
(* on bits 3, 28 and 30 of its flags, and flipping any other bit of the    *)
(* flags leaves the mode unchanged.                                        *)
(***************************************************************************)
C3_HrModeDecisionTable ==
    Called("get_connected_devices") =>
        \A n \in 1..Len(out.data) :
            LET dev == out.data[n]
                bits == Bits64(dev.flags)
            IN Len(dev.flags) <= 16 =>
                 /\ dev.hr_mode = ModeTable(bits[4], bits[29], bits[31])
                 /\ \A b \in (0..63) \ {3, 28, 30} :
                       get_current_hr_mode(get_bit_status(FlipBit(dev.flags, b)).bit_status)
                           = dev.hr_mode

C3_Witness ==
    /\ Called("get_connected_devices")
    /\ Len(out.data) = 1
    /\ out.data[1].flags = [k \in 1..16 |-> IF k = 9 THEN 1 ELSE 15]
    /\ out.data[1].hr_mode = "Integrated HR"

(***************************************************************************)
(* C4: get_bit_status returns a table of exactly 64 entries in index order *)
(* 0..63, entry i ON exactly when bit i of the flags is 1, and a named     *)
(* subset with exactly the keys 3, 24, 28, 30, each with the state of the  *)
(* table entry of that index.                                              *)
(***************************************************************************)
C4_BitTableAndSubset ==
    (Called("get_bit_status") /\ IsHexString(inp) /\ Len(inp) <= 16) =>
        LET bits == Bits64(inp) IN
        /\ Len(out.all_bits) = 64
        /\ \A n \in 1..64 :
              /\ out.all_bits[n].Bit = n - 1
              /\ out.all_bits[n].Status = OnOff(bits[n])
        /\ DictKeys(out.bit_status) = {"3", "24", "28", "30"}
        /\ \A e \in {<<3, "3">>, <<24, "24">>, <<28, "28">>, <<30, "30">>} :
              /\ Cardinality({x \in out.bit_status : x[1] = e[2]}) = 1
              /\ DictGet(out.bit_status, e[2]) = out.all_bits[e[1] + 1].Status
              /\ DictGet(out.bit_status, e[2]) = OnOff(bits[e[1] + 1])

C4_Witness ==
    /\ Called("get_bit_status")
    /\ inp = [k \in 1..16 |-> CASE k = 16 -> 7 [] k = 9 -> 4 [] OTHER -> 15]
    /\ out.all_bits[64].Status = "ON"
    /\ out.all_bits[4].Status = "OFF"
    /\ DictGet(out.bit_status, "3") = "OFF"
    /\ DictGet(out.bit_status, "30") = "ON"
    /\ DictGet(out.bit_status, "28") = "OFF"

\* the integer a digit string denotes
RECURSIVE IntVal(_)
IntVal(digits) ==
    IF digits = <<>> THEN 0
    ELSE 10 * IntVal(SubSeq(digits, 1, Len(digits) - 1)) + digits[Len(digits)]

(***************************************************************************)
(* C7: the radio classification depends only on the integers tx and rx     *)
(* denote: Default exactly when both are 9, Alternative exactly when both  *)
(* are 3, Unknown carrying tx and rx otherwise.                            *)
(***************************************************************************)
C7_RadioClassOfIntegers ==
    Called("get_6_5ghz_config") =>
        \A n \in 1..Len(out.data) :
            LET c == out.data[n]
                tx == IntVal(c.raw.tx)
                rx == IntVal(c.raw.rx)
            IN /\ c.config_type.label = "Default" <=> (tx = 9 /\ rx = 9)
               /\ c.config_type.label = "Alternative" <=> (tx = 3 /\ rx = 3)
               /\ c.config_type.label \in {"Default", "Alternative", "Unknown"}
               /\ IntVal(c.config_type.tx) = tx
               /\ IntVal(c.config_type.rx) = rx

(***************************************************************************)
(* C8: every device identifier the core produces (devices, radio configs,  *)
(* key records, session-group keys) is a non-empty digit string without    *)
(* leading zeros, the id 0 and ids made only of zeros included.            *)
(***************************************************************************)
C8_IdsCanonical ==
    /\ (Called("get_connected_devices") \/ Called("get_6_5ghz_config")
            \/ Called("get_public_key") \/ Called("list_sessions")) =>
          \A n \in 1..Len(out.data) : IsCanonical(out.data[n].id)

\* the three ways a line of the summary output can read
MatchesSummary(line) ==
    /\ line.marker \in {"ID:", "id:"}
    /\ line.id # <<>>
    /\ line.shape
    /\ line.flags # <<>> /\ \A k \in 1..Len(line.flags) : line.flags[k] \in 0..15

IsParseFailure(line) == ~MatchesSummary(line) /\ line.marker = "ID:"

Ran(p) == p.exists /\ ~p.timed_out /\ ~(p.returncode # 0 /\ p.stdout = <<>>)

NoDevicesFound == <<[msg |-> "No devices found. Check connection.", line |-> <<>>]>>

(***************************************************************************)
(* C9: in get_connected_devices a line matching the summary shape yields   *)
(* one device, in line order; a line that does not match but contains      *)
(* "ID:" adds one parse-failure note quoting it to the error text; any     *)
(* other line is ignored; devices are returned alongside the failure       *)
(* notes.                                                                  *)
(***************************************************************************)
C9_EveryLineAccounted ==
    (Called("get_connected_devices") /\ Ran(inp)) =>
        LET matched == SelectSeq(inp.stdout, MatchesSummary)
            failed == SelectSeq(inp.stdout, IsParseFailure)
        IN /\ Len(out.data) = Len(matched)
           /\ \A k \in 1..Len(matched) :
                 /\ out.data[k].flags = matched[k].flags
                 /\ out.data[k].id = lstrip0(matched[k].id)
           /\ failed # <<>> =>
                 /\ Len(out.err) = Len(failed)
                 /\ \A k \in 1..Len(failed) :
                       out.err[k] = [msg |-> "Failed to parse line: ", line |-> <<failed[k]>>]
           /\ (failed = <<>> /\ matched # <<>>) => out.err = NoText

C9_Witness ==
    /\ Called("get_connected_devices") /\ Ran(inp)
    /\ Len(inp.stdout) = 2
    /\ IsParseFailure(inp.stdout[1])
    /\ MatchesSummary(inp.stdout[2])
    /\ Len(out.data) = 1
    /\ Len(out.err) = 1
    /\ out.err[1].line = <<inp.stdout[1]>>

(***************************************************************************)
(* C10: get_connected_devices returns the "no devices found" text exactly  *)
(* when the tool ran and its output gave no device and no parse failure;   *)
(* it never returns an empty device list with an empty error text.         *)
(***************************************************************************)
C10_NoDevicesFound ==
    Called("get_connected_devices") =>
        LET matched == SelectSeq(inp.stdout, MatchesSummary)
            failed == SelectSeq(inp.stdout, IsParseFailure)
        IN /\ out.err = NoDevicesFound <=> (Ran(inp) /\ matched = <<>> /\ failed = <<>>)
           /\ ~(out.data = <<>> /\ out.err = NoText)
           /\ (out.data # <<>> \/ (Ran(inp) /\ failed # <<>>)) => out.err # NoDevicesFound

C10_Witness ==
    /\ Called("get_connected_devices") /\ Ran(inp)
    /\ Len(inp.stdout) = 2
    /\ inp.stdout[1].marker = "id:" /\ ~MatchesSummary(inp.stdout[1])
    /\ inp.stdout[2].marker = ""
    /\ out.data = <<>>
    /\ out.err = NoDevicesFound

IsSetCommand(call) == call.args # <<>> /\ call.args[1] \in {"-ds", "-dc"}

IsQuery(call) == ~IsSetCommand(call)

ArgsOf(calls) == [k \in 1..Len(calls) |-> calls[k].args]

ModeCommands(mode) ==
    CASE mode = "Polar Strap" -> <<<<"-ds", 3>>, <<"-dc", 28>>, <<"-dc", 30>>>>
      [] mode = "Integrated HR" -> <<<<"-ds", 3>>, <<"-ds", 28>>, <<"-dc", 30>>>>
      [] mode = "Bluetooth HR" -> <<<<"-ds", 3>>, <<"-ds", 30>>, <<"-dc", 28>>>>

(***************************************************************************)
(* C5: set_hr_mode invokes the commands of the mode in their listed order  *)
(* and aborts on the first one that fails: no later command is invoked,    *)
(* the failure is in the returned log, and no command undoes the earlier   *)
(* ones.                                                                   *)
(***************************************************************************)
C5_AbortOnFirstFailure ==
    fn = "set_hr_mode" =>
        LET calls == SelectSeq(invoked, IsSetCommand)
            commands == ModeCommands(inp)
        IN /\ Len(calls) <= Len(commands)
           /\ ArgsOf(calls) = SubSeq(commands, 1, Len(calls))
           /\ \A k \in 1..Len(calls) :
                 ~calls[k].success =>
                    /\ Len(calls) = k
                    /\ \E e \in 1..Len(output_log) :
                          output_log[e].tag = "ERROR: " /\ output_log[e].args = calls[k].args
           /\ (\A k \in 1..Len(calls) : calls[k].success) => Len(calls) = Len(commands)

(***************************************************************************)
(* C6: every scan invokes all four queries (devices, radio config, public  *)
(* keys, sessions) whatever the outcome of the others, and the error text  *)
(* of each failed query is in the scan errors.                             *)
(***************************************************************************)
C6_AllCategoriesAttempted ==
    fn \in {"refresh_device_data", "set_hr_mode"} =>
        LET calls == SelectSeq(invoked, IsQuery) IN
        /\ ArgsOf(calls) = <<<<>>, <<"-gsp">>, <<"-gpk">>, <<"-si">>>>
        /\ \A k \in 1..Len(calls) :
              ~calls[k].success =>
                 \A n \in 1..Len(calls[k].stderr) :
                    \E m \in 1..Len(session_state.scan_errors) :
                       session_state.scan_errors[m] = calls[k].stderr[n]

(***************************************************************************)
(* C11: every invocation of an external process has a bounded wait: the    *)
(* caller never waits longer than the timeout, a child still running at    *)
(* the timeout is killed and the call returns a failure, and no call       *)
(* returns with its child still running.                                   *)
(***************************************************************************)
C11_BoundedWait ==
    fn \in {"run_command", "run_raw_file_viewer"} =>
        /\ pc = "waiting" => proc.elapsed <= TIMEOUT
        /\ pc = "done" => proc.state # "running"
        /\ (pc = "done" /\ proc.state = "killed") => ~out.success

QueryFunctions == {"get_connected_devices", "get_6_5ghz_config", "get_public_key", "list_sessions"}

\* what query f returns when the tool behaves as p
QueryResult(f, p) ==
    CASE f = "get_connected_devices" -> get_connected_devices(p)
      [] f = "get_6_5ghz_config" -> get_6_5ghz_config(p)
      [] f = "get_public_key" -> get_public_key(p)
      [] f = "list_sessions" -> list_sessions(p)

(***************************************************************************)
(* C12: when the tool exits with a nonzero status, a query whose stdout is *)
(* not empty returns what it returns for the same output with status 0;    *)
(* with an empty stdout it returns empty data and a non-empty error text.  *)
(***************************************************************************)
C12_NonzeroExitWithOutput ==
    (pc = "done" /\ fn \in QueryFunctions /\ inp.exists /\ ~inp.timed_out
        /\ inp.returncode # 0) =>
        IF inp.stdout # <<>>
        THEN out = QueryResult(fn, [inp EXCEPT !.returncode = 0, !.stderr = NoText])
        ELSE out.data = <<>> /\ out.err # NoText

C12_Witness ==
    /\ Called("get_6_5ghz_config")
    /\ inp.exists /\ ~inp.timed_out /\ inp.returncode = 1
    /\ inp.stdout = <<[id |-> <<7>>, tx |-> <<9>>, rx |-> <<9>>]>>
    /\ Len(out.data) = 1
    /\ out.data[1].config_type.label = "Default"
    /\ out.err = NoText

\* the line without its surrounding whitespace
Trimmed(l) ==
    LET solid == {i \in 1..Len(l) : l[i] # " "}
    IN IF solid = {} THEN <<>>
       ELSE SubSeq(l, CHOOSE i \in solid : \A j \in solid : i <= j,
                      CHOOSE i \in solid : \A j \in solid : j <= i)

OrientationAlphabet == {"+", "r", "u", "."}

IsOrientationLine(l) ==
    Trimmed(l) # <<>> /\ \A i \in 1..Len(Trimmed(l)) : Trimmed(l)[i] \in OrientationAlphabet

Occurrences(s, c) == Cardinality({i \in 1..Len(s) : s[i] = c})

CountOf(counts, key) == CHOOSE n \in 0..20 : <<key, n>> \in counts

(***************************************************************************)
(* C13: parse_orientation_data returns the last line of the text that,     *)
(* without its surrounding whitespace, is non-empty and made only of       *)
(* + r u . ; the four counts are the occurrences of each character and sum *)
(* to the length; the percentage is count(+) / length * 100; with no such  *)
(* line the result is the empty string, empty counts and 0.0.              *)
(***************************************************************************)
C13_LastOrientationLine ==
    Called("parse_orientation_data") =>
        LET matching == {i \in 1..Len(inp) : IsOrientationLine(inp[i])}
        IN IF matching = {}
           THEN /\ out.orientation_string = <<>>
                /\ out.counts = {}
                /\ out.correct_percentage.num = 0
           ELSE LET last == CHOOSE i \in matching : \A j \in matching : j <= i
                    s == Trimmed(inp[last])
                IN /\ out.orientation_string = s
                   /\ out.counts = {<<"Okay (+)", Occurrences(s, "+")>>,
                                    <<"Reversed (r)", Occurrences(s, "r")>>,
                                    <<"Upside Down (u)", Occurrences(s, "u")>>,
                                    <<"Flat (.)", Occurrences(s, ".")>>}
                   /\ CountOf(out.counts, "Okay (+)") + CountOf(out.counts, "Reversed (r)")
                        + CountOf(out.counts, "Upside Down (u)") + CountOf(out.counts, "Flat (.)")
                        = Len(s)
                   /\ out.correct_percentage.den > 0
                   /\ out.correct_percentage.num * Len(s)
                        = Occurrences(s, "+") * 100 * out.correct_percentage.den

\* the example of the specification: the last of two matching lines is returned
C13_Witness ==
    /\ Called("parse_orientation_data")
    /\ inp = << <<"x">>, <<"+", "+", "+", "r", "u">>, <<".", ".", "+", "u", "r", "u">> >>
    /\ out.orientation_string = <<".", ".", "+", "u", "r", "u">>
    /\ out.counts = {<<"Okay (+)", 1>>, <<"Reversed (r)", 1>>, <<"Upside Down (u)", 2>>,
                     <<"Flat (.)", 2>>}
    /\ out.correct_percentage = [num |-> 100, den |-> 6]

\* the battery records of a text, in the order of the text
RecordIdx(text) == {i \in 1..Len(text) : text[i].battery}

FirstRecord(text) == text[CHOOSE i \in RecordIdx(text) : \A j \in RecordIdx(text) : i <= j]

LastRecord(text) == text[CHOOSE i \in RecordIdx(text) : \A j \in RecordIdx(text) : j <= i]

\* a captured string that is a decimal number: at most one point, some digit
IsNumber(s) ==
    /\ Cardinality({i \in 1..Len(s) : s[i] = "."}) <= 1
    /\ \E i \in 1..Len(s) : s[i] # "."

Converts(l) == IsNumber(l.time_s) /\ IsNumber(l.voltage) /\ IsNumber(l.percent)

\* a captured string within the range of a float
IsFinite(s) == \A i \in 1..Len(s) : s[i] # "9{400}"

\* the records convert and the elapsed time is a number
Computes(text) ==
    /\ \A i \in RecordIdx(text) : Converts(text[i])
    /\ IsFinite(FirstRecord(text).time_s) /\ IsFinite(LastRecord(text).time_s)

AllDigits(s) == \A i \in 1..Len(s) : \E d \in 1..10 : DigitChars[d] = s[i]

RECURSIVE NumVal(_)
NumVal(s) == IF s = <<>> THEN 0 ELSE NumVal(SubSeq(s, 1, Len(s) - 1)) * 10 + DigitVal(s[Len(s)])

\* an integer written with its sign and without padding
RECURSIVE Decimal(_)
Decimal(n) ==
    IF n < 0 THEN <<"-">> \o Decimal(-n)
    ELSE IF n < 10 THEN <<DigitChars[n + 1]>>
    ELSE Decimal(n \div 10) \o <<DigitChars[(n % 10) + 1]>>

\* e renders the whole number of minutes m as HH:MM, both fields digits padded
\* to two, minutes in 00..59; a negative m may carry one leading sign
IsHHMM(e, m) ==
    LET neg == e # <<>> /\ e[1] = "-"
        body == IF neg THEN Tail(e) ELSE e
        hh == SubSeq(body, 1, Len(body) - 3)
        mm == SubSeq(body, Len(body) - 1, Len(body))
    IN /\ Len(body) >= 5
       /\ body[Len(body) - 2] = ":"
       /\ AllDigits(hh) /\ AllDigits(mm)
       /\ NumVal(mm) <= 59
       /\ IF neg THEN m < 0 /\ (NumVal(hh) * 60 + NumVal(mm) = -m
                                 \/ NumVal(mm) - NumVal(hh) * 60 = m)
          ELSE NumVal(hh) * 60 + NumVal(mm) = m

(***************************************************************************)
(* C14: for a text whose battery records all convert to numbers, the       *)
(* first and last time within the float range, the summary has the         *)
(* percentage of the first and of the last record, the elapsed time        *)
(* last.time - first.time in whole minutes rendered HH:MM (digits padded   *)
(* to two, minutes 00..59) and the drop first - last with its sign, also   *)
(* when the last time is lower than the first.                             *)
(***************************************************************************)
C14_BatterySummary ==
    (Called("parse_debug_data") /\ RecordIdx(inp) # {} /\ Computes(inp)) =>
        LET first == FirstRecord(inp)
            last == LastRecord(inp)
            minutes == (float(last.time_s) - float(first.time_s)) \div 600
        IN /\ DictGet(out.summary, "first_reading") = Decimal(NumVal(first.percent)) \o <<"%">>
           /\ DictGet(out.summary, "last_reading") = Decimal(NumVal(last.percent)) \o <<"%">>
           /\ DictGet(out.summary, "percent_drop")
                = Decimal(NumVal(first.percent) - NumVal(last.percent)) \o <<"%">>
           /\ IsHHMM(DictGet(out.summary, "time_elapsed_str"), minutes)

SummaryKeys == {"first_reading", "last_reading", "time_elapsed_str", "percent_drop"}

NoDataOutcome ==
    /\ DictKeys(out.summary) = SummaryKeys
    /\ \A k \in SummaryKeys : DictGet(out.summary, k) = <<"N", "/", "A">>
    /\ out.all_data_points = <<>>

ComputedOutcome ==
    /\ DictKeys(out.summary) = SummaryKeys
    /\ \A k \in SummaryKeys : DictGet(out.summary, k) # <<"N", "/", "A">>
    /\ Len(out.all_data_points) = Cardinality(RecordIdx(inp))

FaultOutcome == "error" \in DictKeys(out.summary)

(***************************************************************************)
(* C15: parse_debug_data has three outcomes, exactly one per text: no      *)
(* battery record gives four "N/A" fields, no point and no error tag;      *)
(* records that all convert, with an elapsed time that is a number, give a *)
(* summary with no "N/A" field and no error tag; a record that does not    *)
(* convert, or an elapsed time that is not a number, gives the error tag.  *)
(***************************************************************************)
C15_ThreeOutcomes ==
    Called("parse_debug_data") =>
        /\ RecordIdx(inp) = {} => NoDataOutcome
        /\ (RecordIdx(inp) # {} /\ Computes(inp)) => ComputedOutcome
        /\ (RecordIdx(inp) # {} /\ ~Computes(inp)) => FaultOutcome
        /\ ~(NoDataOutcome /\ ComputedOutcome)
        /\ ~(NoDataOutcome /\ FaultOutcome)
        /\ ~(ComputedOutcome /\ FaultOutcome)
        /\ NoDataOutcome \/ ComputedOutcome \/ FaultOutcome

\* a record whose time does not convert, after one that does: the fault outcome
C15_Witness ==
    /\ Called("parse_debug_data")
    /\ Len(inp) = 2
    /\ inp[1].battery /\ Converts(inp[1])
    /\ inp[2].battery /\ inp[2].time_s = <<"1", ".", "2", ".", "3">>
    /\ FaultOutcome
    /\ out.all_data_points = <<>>

\* an elapsed time that is not a number: the fault comes after the readings
C15_WitnessLateFault ==
    /\ Called("parse_debug_data")
    /\ Len(inp) = 2
    /\ inp[1].battery /\ inp[1].time_s = <<"0">>
    /\ inp[2].battery /\ inp[2].time_s = <<"9{400}">>
    /\ FaultOutcome
    /\ DictGet(out.summary, "first_reading") = <<"5", "0", "%">>
    /\ Len(out.all_data_points) = 2

IsPyInt(x) == x # <<>> /\ Head(x) = -2

\* the hexadecimal digits of a flags value given as a string or as an integer
FlagsDigits(x) == IF IsPyInt(x) THEN Tail(x) ELSE x

IsFlagsValue(x) ==
    /\ FlagsDigits(x) # <<>>
    /\ \A k \in 1..Len(FlagsDigits(x)) : FlagsDigits(x)[k] \in 0..15

(***************************************************************************)
(* C16: get_bit_status never raises; for a flags value given as a          *)
(* hexadecimal string or as an integer it returns the 64-entry decode, for *)
(* any other argument the empty subset and the empty table.                *)
(***************************************************************************)
C16_DecodeOrEmptyFailure ==
    Called("get_bit_status") =>
        /\ "raised" \notin DOMAIN out
        /\ IF IsFlagsValue(inp)
           THEN /\ Len(out.all_bits) = 64
                /\ \A n \in 1..64 : out.all_bits[n].Status = OnOff(Bits64(FlagsDigits(inp))[n])
                /\ DictKeys(out.bit_status) = {"3", "24", "28", "30"}
           ELSE out.bit_status = {} /\ out.all_bits = <<>>

\* the flags decoded and bits 3, 28, 30 are a row of the mode table
MatchesModeRow(flags) ==
    LET bits == Bits64(flags)
    IN bits[4] = 1 /\ ~(bits[29] = 1 /\ bits[31] = 1)

(***************************************************************************)
(* C17: the mode derived from flags whose decode failed is "Error";        *)
(* "Unknown/Custom" is derived only from flags that decoded and whose bits *)
(* 3, 28, 30 match no row of the mode table.                               *)
(***************************************************************************)
C17_DecodeFaultIsError ==
    Called("get_current_hr_mode") =>
        /\ (out.bit_status = {} /\ out.all_bits = <<>>) => out.hr_mode = "Error"
        /\ out.hr_mode = "Unknown/Custom" => (IsFlagsValue(inp) /\ ~MatchesModeRow(inp))

\* the last handler invoked the tool with these arguments
Queried(args) == \E k \in 1..Len(invoked) : invoked[k].args = args

(***************************************************************************)
(* C18: after a rescan the cached query state holds only results of that   *)
(* rescan: a category that is not empty was queried by it.                 *)
(***************************************************************************)
C18_NoStaleCategory ==
    fn \in {"refresh_device_data", "set_hr_mode"} =>
        /\ session_state.devices # <<>> => Queried(<<>>)
        /\ session_state.ghz_config # <<>> => Queried(<<"-gsp">>)
        /\ session_state.public_keys # <<>> => Queried(<<"-gpk">>)
        /\ session_state.sessions # <<>> => Queried(<<"-si">>)

(***************************************************************************)
(* C19: when every command of set_hr_mode(M) succeeds on a device, the     *)
(* flags of the device decode to mode M, and no bit other than 3, 28 and   *)
(* 30 has changed.                                                         *)
(***************************************************************************)
C19_SetThenReadRoundTrip ==
    (Called("set_hr_mode") /\ inp.mode \in {"Polar Strap", "Integrated HR", "Bluetooth HR"}
        /\ \A k \in 1..Len(out.calls) : out.calls[k].success) =>
        /\ out.hr_mode = inp.mode
        /\ ModeTable(Bits64(out.flags)[4], Bits64(out.flags)[29], Bits64(out.flags)[31]) = inp.mode
        /\ \A n \in 0..63 :
              n \notin {3, 28, 30} => Bits64(out.flags)[n + 1] = Bits64(inp.flags)[n + 1]

\* from Integrated HR with every other bit set to Bluetooth HR
C19_Witness ==
    /\ Called("set_hr_mode")
    /\ inp.mode = "Bluetooth HR"
    /\ inp.flags = [k \in 1..16 |-> 15]
    /\ Len(out.calls) = 3
    /\ \A k \in 1..3 : out.calls[k].success
    /\ out.flags = [k \in 1..16 |-> IF k = 9 THEN 14 ELSE 15]
    /\ out.hr_mode = "Bluetooth HR"

(***************************************************************************)
(* C20: set_hr_mode with a mode outside its three modes, and               *)
(* set_6_5ghz_config with a mode outside its two, return "Invalid mode     *)
(* selected." and invoke the tool not once: the device is unchanged.       *)
(***************************************************************************)
C20_InvalidModeChangesNothing ==
    /\ (Called("set_hr_mode")
            /\ inp.mode \notin {"Polar Strap", "Integrated HR", "Bluetooth HR"}) =>
          /\ out.calls = <<>>
          /\ Len(out.log) = 1 /\ out.log[1].tag = "Invalid mode selected."
          /\ out.flags = inp.flags
    /\ (Called("set_6_5ghz_config") /\ inp.mode \notin {"Default", "Alternative"}) =>
          /\ out.calls = <<>>
          /\ Len(out.log) = 1 /\ out.log[1].tag = "Invalid mode selected."

C20_Witness ==
    /\ Called("set_hr_mode")
    /\ inp.mode = "polar strap"
    /\ inp.flags = [k \in 1..16 |-> 0]
    /\ out.calls = <<>>
    /\ out.log = <<[tag |-> "Invalid mode selected.", args |-> <<>>, text |-> <<>>]>>
    /\ out.flags = inp.flags

====
